---- MODULE Spec2Model ----
(***************************************************************************)
(* The ai-companion backend:                                               *)
(*   backend/models/game.py            GameSession, GameRecord rows        *)
(*   backend/services/game_service.py  GameService                         *)
(*   backend/routers/games.py          the HTTP handlers of the games      *)
(*   backend/services/call_service.py  CallSession, CallService            *)
(*   backend/routers/call.py           POST /end and the call WebSocket    *)
(*   backend/services/music_service.py the playback state of MusicService  *)
(*                                                                         *)
(* The database is the pair of tables (sessions, records).  A row id is    *)
(* the row's position in its table (the source draws a fresh uuid4).       *)
(* Timestamps (created_at, updated_at, played_at) are not read by any      *)
(* operation and are left out.  An Optional value is None == <<>> or       *)
(* Some(v) == <<v>>; a str is the sequence of its characters where the     *)
(* code indexes into it (words), and a TLA+ string otherwise.              *)
(***************************************************************************)
EXTENDS Integers, Sequences, FiniteSets, TLC

VARIABLES
    sessions,        \* table game_sessions: Seq of GameSession rows
    records,         \* table game_records: Seq of GameRecord rows
    resp,            \* the last HTTP response sent: [op, status, body]
    reqs,            \* POST /sessions requests in flight between lookup and create
    plays,           \* word-chain requests in flight between read and commit
    call_sessions,   \* the CallSession objects made so far, by id
    active_sessions, \* CallService.active_sessions: the ids it holds
    ws,              \* the handler of the call WebSocket
    playback         \* table playback_states: companion_id -> Optional row

\* the state of the call service and of the music player
callVars == <<call_sessions, active_sessions, ws>>
musicVars == <<playback>>

vars == <<sessions, records, resp, reqs, plays, callVars, musicVars>>

----------------------------------------------------------------------------
(* Bounds of the model *)

MaxDbSize == 3      \* rows of both tables plus the moves stored in them
NumClients == 2     \* concurrent POST /sessions requests in SpecConc

(* Inputs *)

None == <<>>
Some(v) == <<v>>

GameIds == {"word_chain", "trivia", "guess_number"}
CompanionIds == {"c1", "c2"}
SessionIds == 1..MaxDbSize
Words == {<<>>, <<"a">>, <<"a", "b">>}
AnswerInputs == {"Pacific", "Yangtze"}
GuessInputs == {30, 42, 101}
Targets == {42}

----------------------------------------------------------------------------
(* dict helpers *)

EmptyDict == [k \in {} |-> 0]

Get(d, k, default) == IF k \in DOMAIN d THEN d[k] ELSE default

Put(d, k, v) == [x \in (DOMAIN d) \cup {k} |-> IF x = k THEN v ELSE d[x]]

Append1(s, e) == s \o <<e>>

InList(e, s) == \E i \in 1..Len(s) : s[i] = e

----------------------------------------------------------------------------
(* services/game_service.py: the static pools *)

TRIVIA_QUESTIONS ==
    << [question |-> "largest ocean", answer |-> "Pacific",
        options |-> <<"Pacific", "Atlantic", "Indian", "Arctic">>],
       [question |-> "speed of light", answer |-> "300k km/s",
        options |-> <<"300k km/s", "30k km/s", "3000k km/s", "3000 km/s">>],
       [question |-> "longest river of China", answer |-> "Yangtze",
        options |-> <<"Yellow River", "Yangtze", "Pearl River", "Huai River">>],
       [question |-> "days in a year", answer |-> "365 days",
        options |-> <<"360 days", "365 days", "366 days", "364 days">>],
       [question |-> "formula of water", answer |-> "H2O",
        options |-> <<"H2O", "CO2", "O2", "NaCl">> ] >>

SampleSize == 5
MaxGuesses == 7
MinRange == 1
MaxRange == 100

\* min that returns the larger argument
Min_larger(a, b) == IF a < b THEN b ELSE a

Min(a, b) == IF a < b THEN a ELSE b

Max(a, b) == IF a > b THEN a ELSE b

\* random.sample(TRIVIA_QUESTIONS, min(5, len)): an ordering of
\* min(5, len) distinct indices of the pool; one of the orderings is drawn
Samples == { <<3, 1, 5, 2, 4>> }

get_initial_state(game_id, sample, target) ==
    IF game_id = "word_chain" THEN
        [current_word |-> None, words_used |-> <<>>, user_score |-> 0,
         companion_score |-> 0, turn |-> "user", rounds |-> 0]
    ELSE IF game_id = "trivia" THEN
        [questions |-> [i \in 1..Len(sample) |-> TRIVIA_QUESTIONS[sample[i]]],
         current_index |-> 0, user_score |-> 0, companion_score |-> 0,
         answers |-> <<>>]
    ELSE IF game_id = "guess_number" THEN
        [target |-> target, min_range |-> MinRange, max_range |-> MaxRange,
         guesses |-> <<>>, max_guesses |-> MaxGuesses, won |-> FALSE]
    ELSE EmptyDict

----------------------------------------------------------------------------
(* models/game.py *)

\* GameSession.set_state: the state column holds the JSON text of the dict
set_state(row, state_dict) == [row EXCEPT !.state = [json |-> state_dict]]

\* GameSession.get_state: the dict the JSON text denotes
get_state(row) == row.state.json

\* GameSession.to_dict
session_to_dict(row) ==
    [id |-> row.id, game_id |-> row.game_id, companion_id |-> row.companion_id,
     state |-> get_state(row), is_active |-> row.is_active]

\* GameRecord.to_dict
record_to_dict(r) ==
    [id |-> r.id, game_id |-> r.game_id, companion_id |-> r.companion_id,
     session_id |-> r.session_id, user_score |-> r.user_score,
     companion_score |-> r.companion_score,
     rounds_played |-> r.rounds_played, winner |-> r.winner]

----------------------------------------------------------------------------
(* services/game_service.py: GameService *)

\* get_session: the row with that id, or None
get_session(S, session_id) ==
    IF session_id \in 1..Len(S) THEN Some(S[session_id]) ELSE None

\* get_active_session with the is_active filter inverted
get_active_session_inactive(S, companion_id, game_id) ==
    LET matching == { i \in 1..Len(S) : /\ S[i].companion_id = companion_id
                                        /\ S[i].game_id = game_id
                                        /\ S[i].is_active = FALSE }
    IN  IF matching = {} THEN {None} ELSE { Some(S[i]) : i \in matching }

\* get_active_session: .first() of the active rows of the pair.  The query
\* has no ORDER BY, so any matching row may come first: the set of results
\* the query can give.
get_active_session(S, companion_id, game_id) ==
    LET matching == { i \in 1..Len(S) : /\ S[i].companion_id = companion_id
                                        /\ S[i].game_id = game_id
                                        /\ S[i].is_active = TRUE }
    IN  IF matching = {} THEN {None} ELSE { Some(S[i]) : i \in matching }

\* create_session: add an active row holding the initial state; the new row
\* is the last one of the table returned
GameService_create_session(S, game_id, companion_id, sample, target) ==
    LET session == [id |-> Len(S) + 1, game_id |-> game_id,
                    companion_id |-> companion_id, is_active |-> TRUE,
                    state |-> [json |-> EmptyDict]]
    IN  Append(S, set_state(session, get_initial_state(game_id, sample, target)))

\* update_session_state: [result, sessions] after the call
GameService_update_session_state(S, session_id, new_state) ==
    LET found == get_session(S, session_id) IN
    IF found = None
    THEN [result |-> None, sessions |-> S]
    ELSE LET session == set_state(found[1], new_state)
         IN  [result |-> Some(session),
              sessions |-> [S EXCEPT ![session.id] = session]]

\* the record of end_session that gives an even score to the user
new_record_userties(session, record_id) ==
    LET state == get_state(session)
        user_score == Get(state, "user_score", 0)
        companion_score == Get(state, "companion_score", 0)
        winner == IF user_score >= companion_score THEN "user"
                  ELSE IF companion_score > user_score THEN "companion"
                  ELSE "tie"
    IN  [id |-> record_id,
         game_id |-> session.game_id,
         companion_id |-> session.companion_id,
         session_id |-> session.id,
         user_score |-> user_score,
         companion_score |-> companion_score,
         rounds_played |-> Get(state, "rounds", Get(state, "current_index", 0)),
         winner |-> winner]

\* the record of end_session that reads rounds only
new_record_norounds(session, record_id) ==
    LET state == get_state(session)
        user_score == Get(state, "user_score", 0)
        companion_score == Get(state, "companion_score", 0)
        winner == IF user_score > companion_score THEN "user"
                  ELSE IF companion_score > user_score THEN "companion"
                  ELSE "tie"
    IN  [id |-> record_id,
         game_id |-> session.game_id,
         companion_id |-> session.companion_id,
         session_id |-> session.id,
         user_score |-> user_score,
         companion_score |-> companion_score,
         rounds_played |-> Get(state, "rounds", 0),
         winner |-> winner]

\* end_session, the GameRecord built from the session's state
new_record(session, record_id) ==
    LET state == get_state(session)
        user_score == Get(state, "user_score", 0)
        companion_score == Get(state, "companion_score", 0)
        winner == IF user_score > companion_score THEN "user"
                  ELSE IF companion_score > user_score THEN "companion"
                  ELSE "tie"
    IN  [id |-> record_id,
         game_id |-> session.game_id,
         companion_id |-> session.companion_id,
         session_id |-> session.id,
         user_score |-> user_score,
         companion_score |-> companion_score,
         rounds_played |-> Get(state, "rounds", Get(state, "current_index", 0)),
         winner |-> winner]

\* end_session refusing a session that is no longer active
GameService_end_session_once(S, R, session_id) ==
    LET found == get_session(S, session_id) IN
    IF found = None \/ ~found[1].is_active
    THEN [result |-> None, sessions |-> S, records |-> R]
    ELSE
      LET session == found[1]
          record == new_record(session, Len(R) + 1)
      IN  [result |-> Some(record_to_dict(record)),
           sessions |-> [S EXCEPT ![session.id].is_active = FALSE],
           records |-> Append(R, record)]

\* end_session flipping is_active instead of clearing it
GameService_end_session_toggle(S, R, session_id) ==
    LET found == get_session(S, session_id) IN
    IF found = None THEN [result |-> None, sessions |-> S, records |-> R]
    ELSE
      LET session == found[1]
          record == new_record(session, Len(R) + 1)
      IN  [result |-> Some(record_to_dict(record)),
           sessions |-> [S EXCEPT ![session.id].is_active = ~session.is_active],
           records |-> Append(R, record)]

\* end_session: [result, sessions, records] after the call
GameService_end_session(S, R, session_id) ==
    LET found == get_session(S, session_id) IN
    IF found = None THEN [result |-> None, sessions |-> S, records |-> R]
    ELSE
      LET session == found[1]
          record == new_record(session, Len(R) + 1)
      IN  [result |-> Some(record_to_dict(record)),
           sessions |-> [S EXCEPT ![session.id].is_active = FALSE],
           records |-> Append(R, record)]

\* a current_word that is never taken as set
Truthy_never(s) == FALSE

\* truth value of an Optional[str]: None and "" are falsy
Truthy(s) == s # None /\ s[1] # <<>>

\* an accepted word that leaves rounds alone
word_chain_accept_norounds(state, word) ==
    LET s1 == Put(state, "words_used", Append1(state["words_used"], word))
        s2 == Put(s1, "current_word", Some(word))
        s3 == Put(s2, "user_score", Get(s2, "user_score", 0) + 1)
    IN  Put(s3, "turn", "companion")

\* an accepted word that the companion answers for two points
word_chain_accept_reply(state, word) ==
    LET s1 == Put(state, "words_used", Append1(state["words_used"], word))
        s2 == Put(s1, "current_word", Some(word))
        s3 == Put(s2, "user_score", Get(s2, "user_score", 0) + 1)
        s4 == Put(s3, "rounds", Get(s3, "rounds", 0) + 1)
        s5 == Put(s4, "companion_score", Get(s4, "companion_score", 0) + 2)
    IN  Put(s5, "turn", "companion")

\* play_word_chain, the state after an accepted word
word_chain_accept(state, word) ==
    LET s1 == Put(state, "words_used", Append1(state["words_used"], word))
        s2 == Put(s1, "current_word", Some(word))
        s3 == Put(s2, "user_score", Get(s2, "user_score", 0) + 1)
        s4 == Put(s3, "rounds", Get(s3, "rounds", 0) + 1)
    IN  Put(s4, "turn", "companion")

\* play_word_chain without the words_used test
GameService_play_word_chain_repeat(S, session_id, word) ==
    LET found == get_session(S, session_id) IN
    IF found = None \/ found[1].game_id # "word_chain"
    THEN [result |-> [error |-> "Invalid session"], sessions |-> S]
    ELSE
      LET session == found[1]
          state == get_state(session)
          current_word == Get(state, "current_word", None)
      IN
      IF Truthy(current_word) /\ word = <<>>
      THEN [result |-> [raised |-> "IndexError"], sessions |-> S]
      ELSE IF Truthy(current_word)
              /\ word[1] # current_word[1][Len(current_word[1])]
      THEN [result |-> [error |-> "must start with "
                                  \o current_word[1][Len(current_word[1])],
                        valid |-> FALSE],
            sessions |-> S]
      ELSE
        LET new_state == word_chain_accept(state, word)
        IN  [result |-> [valid |-> TRUE, word |-> word, state |-> new_state],
             sessions |->
                 [S EXCEPT ![session.id] = set_state(session, new_state)]]

\* play_word_chain: [result, sessions] after the call; an IndexError raised
\* by word[0] is the result [raised |-> "IndexError"]
GameService_play_word_chain(S, session_id, word) ==
    LET found == get_session(S, session_id) IN
    IF found = None \/ found[1].game_id # "word_chain"
    THEN [result |-> [error |-> "Invalid session"], sessions |-> S]
    ELSE
      LET session == found[1]
          state == get_state(session)
          current_word == Get(state, "current_word", None)
      IN
      IF InList(word, Get(state, "words_used", <<>>))
      THEN [result |-> [error |-> "already used", valid |-> FALSE],
            sessions |-> S]
      ELSE IF Truthy(current_word) /\ word = <<>>
      THEN [result |-> [raised |-> "IndexError"], sessions |-> S]
      ELSE IF Truthy(current_word)
              /\ word[1] # current_word[1][Len(current_word[1])]
      THEN [result |-> [error |-> "must start with "
                                  \o current_word[1][Len(current_word[1])],
                        valid |-> FALSE],
            sessions |-> S]
      ELSE
        LET new_state == word_chain_accept(state, word)
        IN  [result |-> [valid |-> TRUE, word |-> word, state |-> new_state],
             sessions |->
                 [S EXCEPT ![session.id] = set_state(session, new_state)]]

\* play_trivia that scores every answer
GameService_play_trivia_generous(S, session_id, answer) ==
    LET found == get_session(S, session_id) IN
    IF found = None \/ found[1].game_id # "trivia"
    THEN [result |-> [error |-> "Invalid session"], sessions |-> S]
    ELSE
      LET session == found[1]
          state == get_state(session)
          questions == Get(state, "questions", <<>>)
          current_index == Get(state, "current_index", 0)
      IN
      IF current_index >= Len(questions)
      THEN [result |-> [error |-> "No more questions", finished |-> TRUE],
            sessions |-> S]
      ELSE
        LET current_question == questions[current_index + 1]
            correct == (answer = current_question.answer)
            s1 == Put(state, "user_score", Get(state, "user_score", 0) + 1)
            s2 == Put(s1, "answers", Append1(s1["answers"],
                      [question |-> current_question.question,
                       user_answer |-> answer,
                       correct_answer |-> current_question.answer,
                       correct |-> correct]))
            s3 == Put(s2, "current_index", current_index + 1)
            finished == s3["current_index"] >= Len(questions)
        IN  [result |-> [correct |-> correct,
                         correct_answer |-> current_question.answer,
                         finished |-> finished, state |-> s3],
             sessions |-> [S EXCEPT ![session.id] = set_state(session, s3)]]

\* play_trivia that counts an answer given after the last question
GameService_play_trivia_overrun(S, session_id, answer) ==
    LET found == get_session(S, session_id) IN
    IF found = None \/ found[1].game_id # "trivia"
    THEN [result |-> [error |-> "Invalid session"], sessions |-> S]
    ELSE
      LET session == found[1]
          state == get_state(session)
          questions == Get(state, "questions", <<>>)
          current_index == Get(state, "current_index", 0)
      IN
      IF current_index >= Len(questions)
      THEN [result |-> [error |-> "No more questions", finished |-> TRUE],
            sessions |->
                [S EXCEPT ![session.id] =
                     set_state(session,
                               Put(state, "current_index", current_index + 1))]]
      ELSE
        LET current_question == questions[current_index + 1]
            correct == (answer = current_question.answer)
            s1 == IF correct
                  THEN Put(state, "user_score", Get(state, "user_score", 0) + 1)
                  ELSE state
            s2 == Put(s1, "answers", Append1(s1["answers"],
                      [question |-> current_question.question,
                       user_answer |-> answer,
                       correct_answer |-> current_question.answer,
                       correct |-> correct]))
            s3 == Put(s2, "current_index", current_index + 1)
            finished == s3["current_index"] >= Len(questions)
        IN  [result |-> [correct |-> correct,
                         correct_answer |-> current_question.answer,
                         finished |-> finished, state |-> s3],
             sessions |-> [S EXCEPT ![session.id] = set_state(session, s3)]]

\* play_trivia: [result, sessions] after the call
GameService_play_trivia(S, session_id, answer) ==
    LET found == get_session(S, session_id) IN
    IF found = None \/ found[1].game_id # "trivia"
    THEN [result |-> [error |-> "Invalid session"], sessions |-> S]
    ELSE
      LET session == found[1]
          state == get_state(session)
          questions == Get(state, "questions", <<>>)
          current_index == Get(state, "current_index", 0)
      IN
      IF current_index >= Len(questions)
      THEN [result |-> [error |-> "No more questions", finished |-> TRUE],
            sessions |-> S]
      ELSE
        LET current_question == questions[current_index + 1]
            correct == (answer = current_question.answer)
            s1 == IF correct
                  THEN Put(state, "user_score", Get(state, "user_score", 0) + 1)
                  ELSE state
            s2 == Put(s1, "answers", Append1(s1["answers"],
                      [question |-> current_question.question,
                       user_answer |-> answer,
                       correct_answer |-> current_question.answer,
                       correct |-> correct]))
            s3 == Put(s2, "current_index", current_index + 1)
            finished == s3["current_index"] >= Len(questions)
        IN  [result |-> [correct |-> correct,
                         correct_answer |-> current_question.answer,
                         finished |-> finished, state |-> s3],
             sessions |-> [S EXCEPT ![session.id] = set_state(session, s3)]]

\* play_guess_number scoring max_guesses - len(guesses)
GameService_play_guess_number_zero(S, session_id, guess) ==
    LET found == get_session(S, session_id) IN
    IF found = None \/ found[1].game_id # "guess_number"
    THEN [result |-> [error |-> "Invalid session"], sessions |-> S]
    ELSE
      LET session == found[1]
          state == get_state(session)
          target == Get(state, "target", 0)
          guesses0 == Get(state, "guesses", <<>>)
          max_guesses == Get(state, "max_guesses", MaxGuesses)
      IN
      IF Get(state, "won", FALSE) \/ Len(guesses0) >= max_guesses
      THEN [result |-> [error |-> "Game already finished", finished |-> TRUE],
            sessions |-> S]
      ELSE
        LET guesses == Append1(guesses0, guess)
            s1 == Put(state, "guesses", guesses)
            s2 == IF guess = target
                  THEN Put(Put(s1, "won", TRUE),
                           "user_score", max_guesses - Len(guesses))
                  ELSE IF guess < target
                  THEN Put(s1, "min_range",
                           Max(Get(s1, "min_range", MinRange), guess + 1))
                  ELSE Put(s1, "max_range",
                           Min(Get(s1, "max_range", MaxRange), guess - 1))
            hint == IF guess = target THEN "correct"
                    ELSE IF guess < target THEN "higher" ELSE "lower"
            finished == s2["won"] \/ Len(guesses) >= max_guesses
        IN  [result |-> [guess |-> guess, hint |-> hint,
                         finished |-> finished, won |-> s2["won"],
                         target |-> IF finished THEN Some(target) ELSE None,
                         state |-> s2],
             sessions |-> [S EXCEPT ![session.id] = set_state(session, s2)]]

\* play_guess_number that allows one guess beyond max_guesses
GameService_play_guess_number_extra(S, session_id, guess) ==
    LET found == get_session(S, session_id) IN
    IF found = None \/ found[1].game_id # "guess_number"
    THEN [result |-> [error |-> "Invalid session"], sessions |-> S]
    ELSE
      LET session == found[1]
          state == get_state(session)
          target == Get(state, "target", 0)
          guesses0 == Get(state, "guesses", <<>>)
          max_guesses == Get(state, "max_guesses", MaxGuesses)
      IN
      IF Get(state, "won", FALSE) \/ Len(guesses0) > max_guesses
      THEN [result |-> [error |-> "Game already finished", finished |-> TRUE],
            sessions |-> S]
      ELSE
        LET guesses == Append1(guesses0, guess)
            s1 == Put(state, "guesses", guesses)
            s2 == IF guess = target
                  THEN Put(Put(s1, "won", TRUE),
                           "user_score", max_guesses - Len(guesses) + 1)
                  ELSE IF guess < target
                  THEN Put(s1, "min_range",
                           Max(Get(s1, "min_range", MinRange), guess + 1))
                  ELSE Put(s1, "max_range",
                           Min(Get(s1, "max_range", MaxRange), guess - 1))
            hint == IF guess = target THEN "correct"
                    ELSE IF guess < target THEN "higher" ELSE "lower"
            finished == s2["won"] \/ Len(guesses) >= max_guesses
        IN  [result |-> [guess |-> guess, hint |-> hint,
                         finished |-> finished, won |-> s2["won"],
                         target |-> IF finished THEN Some(target) ELSE None,
                         state |-> s2],
             sessions |-> [S EXCEPT ![session.id] = set_state(session, s2)]]

\* play_guess_number that narrows the range from the wrong side
GameService_play_guess_number_swapped(S, session_id, guess) ==
    LET found == get_session(S, session_id) IN
    IF found = None \/ found[1].game_id # "guess_number"
    THEN [result |-> [error |-> "Invalid session"], sessions |-> S]
    ELSE
      LET session == found[1]
          state == get_state(session)
          target == Get(state, "target", 0)
          guesses0 == Get(state, "guesses", <<>>)
          max_guesses == Get(state, "max_guesses", MaxGuesses)
      IN
      IF Get(state, "won", FALSE) \/ Len(guesses0) >= max_guesses
      THEN [result |-> [error |-> "Game already finished", finished |-> TRUE],
            sessions |-> S]
      ELSE
        LET guesses == Append1(guesses0, guess)
            s1 == Put(state, "guesses", guesses)
            s2 == IF guess = target
                  THEN Put(Put(s1, "won", TRUE),
                           "user_score", max_guesses - Len(guesses) + 1)
                  ELSE IF guess > target
                  THEN Put(s1, "min_range",
                           Max(Get(s1, "min_range", MinRange), guess + 1))
                  ELSE Put(s1, "max_range",
                           Min(Get(s1, "max_range", MaxRange), guess - 1))
            hint == IF guess = target THEN "correct"
                    ELSE IF guess < target THEN "higher" ELSE "lower"
            finished == s2["won"] \/ Len(guesses) >= max_guesses
        IN  [result |-> [guess |-> guess, hint |-> hint,
                         finished |-> finished, won |-> s2["won"],
                         target |-> IF finished THEN Some(target) ELSE None,
                         state |-> s2],
             sessions |-> [S EXCEPT ![session.id] = set_state(session, s2)]]

\* play_guess_number: [result, sessions] after the call
GameService_play_guess_number(S, session_id, guess) ==
    LET found == get_session(S, session_id) IN
    IF found = None \/ found[1].game_id # "guess_number"
    THEN [result |-> [error |-> "Invalid session"], sessions |-> S]
    ELSE
      LET session == found[1]
          state == get_state(session)
          target == Get(state, "target", 0)
          guesses0 == Get(state, "guesses", <<>>)
          max_guesses == Get(state, "max_guesses", MaxGuesses)
      IN
      IF Get(state, "won", FALSE) \/ Len(guesses0) >= max_guesses
      THEN [result |-> [error |-> "Game already finished", finished |-> TRUE],
            sessions |-> S]
      ELSE
        LET guesses == Append1(guesses0, guess)
            s1 == Put(state, "guesses", guesses)
            s2 == IF guess = target
                  THEN Put(Put(s1, "won", TRUE),
                           "user_score", max_guesses - Len(guesses) + 1)
                  ELSE IF guess < target
                  THEN Put(s1, "min_range",
                           Max(Get(s1, "min_range", MinRange), guess + 1))
                  ELSE Put(s1, "max_range",
                           Min(Get(s1, "max_range", MaxRange), guess - 1))
            hint == IF guess = target THEN "correct"
                    ELSE IF guess < target THEN "higher" ELSE "lower"
            finished == s2["won"] \/ Len(guesses) >= max_guesses
        IN  [result |-> [guess |-> guess, hint |-> hint,
                         finished |-> finished, won |-> s2["won"],
                         target |-> IF finished THEN Some(target) ELSE None,
                         state |-> s2],
             sessions |-> [S EXCEPT ![session.id] = set_state(session, s2)]]

\* get_statistics, the body of its loop for one record r
stats_add(stats, r) ==
    LET s1 == [stats EXCEPT
                 !.total_user_score = @ + r.user_score,
                 !.total_companion_score = @ + r.companion_score]
        s2 == IF r.winner = "user" THEN [s1 EXCEPT !.wins = @ + 1]
              ELSE IF r.winner = "companion"
              THEN [s1 EXCEPT !.losses = @ + 1]
              ELSE [s1 EXCEPT !.ties = @ + 1]
        by_type == IF r.game_id \notin DOMAIN s2.games_by_type
                   THEN Put(s2.games_by_type, r.game_id,
                            [played |-> 0, wins |-> 0])
                   ELSE s2.games_by_type
        entry == by_type[r.game_id]
        counted == [played |-> entry.played + 1,
                    wins |-> IF r.winner = "user"
                             THEN entry.wins + 1 ELSE entry.wins]
    IN  [s2 EXCEPT !.games_by_type = Put(by_type, r.game_id, counted)]

RECURSIVE stats_loop(_, _)
\* get_statistics, its loop over the records rs
stats_loop(stats, rs) ==
    IF rs = <<>> THEN stats
    ELSE stats_loop(stats_add(stats, Head(rs)), Tail(rs))

\* get_statistics over the records of every companion
GameService_get_statistics_all(R, companion_id) ==
    stats_loop([total_games |-> Len(R), total_user_score |-> 0,
                total_companion_score |-> 0, wins |-> 0, losses |-> 0,
                ties |-> 0, games_by_type |-> EmptyDict], R)

\* get_statistics: the statistics of the companion's records
GameService_get_statistics(R, companion_id) ==
    LET rs == SelectSeq(R, LAMBDA r : r.companion_id = companion_id)
    IN  IF rs = <<>>
        THEN [total_games |-> 0, total_user_score |-> 0,
              total_companion_score |-> 0, wins |-> 0, losses |-> 0,
              ties |-> 0, games_by_type |-> EmptyDict]
        ELSE stats_loop([total_games |-> Len(rs), total_user_score |-> 0,
                         total_companion_score |-> 0, wins |-> 0,
                         losses |-> 0, ties |-> 0,
                         games_by_type |-> EmptyDict], rs)

----------------------------------------------------------------------------
(* services/call_service.py.  A CallSession object lives on after          *)
(* CallService drops it (the WebSocket handler keeps its reference), so    *)
(* call_sessions holds every object made, by id, and active_sessions the   *)
(* ids the dict of the service holds.  start_time and the duration derived  *)
(* from it, the voice and personality texts and conversation_history are    *)
(* left out.                                                                 *)

CallStatus == [CONNECTING |-> "connecting", ACTIVE |-> "active",
               ENDED |-> "ended"]

\* CallSession.__init__
CallSession(id, companion_id) ==
    [id |-> id, companion_id |-> companion_id,
     status |-> CallStatus.CONNECTING]

\* CallSession.to_dict
CallSession_to_dict(s) ==
    [id |-> s.id, companion_id |-> s.companion_id, status |-> s.status]

\* CallSession.activate
CallSession_activate(s) ==
    IF s.status = CallStatus.CONNECTING
    THEN [s EXCEPT !.status = CallStatus.ACTIVE]
    ELSE s

\* CallSession.end
CallSession_end(s) == [s EXCEPT !.status = CallStatus.ENDED]

\* CallService.create_session: [result, call_sessions, active_sessions]
CallService_create_session(CS, AS, companion_id) ==
    LET session == CallSession(Len(CS) + 1, companion_id)
    IN  [result |-> session,
         call_sessions |-> Append(CS, session),
         active_sessions |-> AS \cup {session.id}]

\* CallService.get_session
CallService_get_session(CS, AS, session_id) ==
    IF session_id \in AS THEN Some(CS[session_id]) ELSE None

\* activate_session that activates whatever session the service holds
CallService_activate_session_any(CS, AS, session_id) ==
    LET session == CallService_get_session(CS, AS, session_id) IN
    IF session # None
    THEN [result |-> TRUE,
          call_sessions |->
              [CS EXCEPT ![session_id].status = CallStatus.ACTIVE],
          active_sessions |-> AS]
    ELSE [result |-> FALSE, call_sessions |-> CS, active_sessions |-> AS]

\* CallService.activate_session: [result, call_sessions, active_sessions]
CallService_activate_session(CS, AS, session_id) ==
    LET session == CallService_get_session(CS, AS, session_id) IN
    IF session # None /\ session[1].status = CallStatus.CONNECTING
    THEN [result |-> TRUE,
          call_sessions |->
              [CS EXCEPT ![session_id] = CallSession_activate(@)],
          active_sessions |-> AS]
    ELSE [result |-> FALSE, call_sessions |-> CS, active_sessions |-> AS]

\* end_session that ends the session and keeps it in the dict
CallService_end_session_keep(CS, AS, session_id) ==
    LET session == CallService_get_session(CS, AS, session_id) IN
    IF session # None /\ session[1].status # CallStatus.ENDED
    THEN [result |-> TRUE,
          call_sessions |-> [CS EXCEPT ![session_id] = CallSession_end(@)],
          active_sessions |-> AS]
    ELSE [result |-> FALSE, call_sessions |-> CS, active_sessions |-> AS]

\* CallService.end_session: [result, call_sessions, active_sessions]
CallService_end_session(CS, AS, session_id) ==
    LET session == CallService_get_session(CS, AS, session_id) IN
    IF session # None
    THEN [result |-> TRUE,
          call_sessions |-> [CS EXCEPT ![session_id] = CallSession_end(@)],
          active_sessions |-> AS \ {session_id}]
    ELSE [result |-> FALSE, call_sessions |-> CS, active_sessions |-> AS]

\* CallService.get_active_sessions_count
CallService_get_active_sessions_count(AS) == Cardinality(AS)

\* CallService.process_user_speech, its test of the session; the reply of
\* the chat and voice services is one text
CallService_process_user_speech(CS, AS, session_id) ==
    LET session == CallService_get_session(CS, AS, session_id) IN
    IF session = None \/ session[1].status # CallStatus.ACTIVE
    THEN [error |-> "Invalid or inactive session"]
    ELSE [text |-> "reply"]

RECURSIVE end_each(_, _, _)
\* cleanup_stale_sessions, its loop of end_session over the stale ids
end_each(CS, AS, stale_ids) ==
    IF stale_ids = {} THEN [call_sessions |-> CS, active_sessions |-> AS]
    ELSE LET session_id == CHOOSE x \in stale_ids : TRUE
             r == CallService_end_session(CS, AS, session_id)
         IN  end_each(r.call_sessions, r.active_sessions,
                      stale_ids \ {session_id})

\* CallService.cleanup_stale_sessions: stale_ids are the held sessions whose
\* duration is over max_duration_seconds
CallService_cleanup_stale_sessions(CS, AS, stale_ids) ==
    LET r == end_each(CS, AS, stale_ids)
    IN  [result |-> Cardinality(stale_ids),
         call_sessions |-> r.call_sessions,
         active_sessions |-> r.active_sessions]

----------------------------------------------------------------------------
(* services/music_service.py, models/music.py: the playback state.  Table  *)
(* playback_states has at most one row per companion (companion_id is      *)
(* unique), so it is a function from companion_id to an Optional row; the   *)
(* row's id, playlist_id, volume and updated_at are not written by the      *)
(* playback operations and are left out.  Table music_tracks is the fixed   *)
(* set TrackRows of ids.  progress is in whole seconds.                     *)

TrackRows == {"t1", "t2"}

\* MusicService.get_track
MusicService_get_track(track_id) ==
    IF track_id \in TrackRows THEN Some(track_id) ELSE None

\* PlaybackState(companion_id=...): the column defaults
PlaybackState(companion_id) ==
    [companion_id |-> companion_id, current_track_id |-> None,
     is_playing |-> FALSE, progress |-> 0]

\* PlaybackState.to_dict
PlaybackState_to_dict(row) ==
    [companion_id |-> row.companion_id,
     current_track_id |-> row.current_track_id,
     is_playing |-> row.is_playing, progress |-> row.progress]

\* MusicService.get_playback_state
MusicService_get_playback_state(P, companion_id) == P[companion_id]

\* MusicService.get_or_create_playback_state: [result, playback]
MusicService_get_or_create_playback_state(P, companion_id) ==
    LET state == MusicService_get_playback_state(P, companion_id) IN
    IF state = None
    THEN [result |-> PlaybackState(companion_id),
          playback |->
              [P EXCEPT ![companion_id] = Some(PlaybackState(companion_id))]]
    ELSE [result |-> state[1], playback |-> P]

\* play_track that keeps the progress of the track before
MusicService_play_track_keep(P, companion_id, track_id) ==
    LET track == MusicService_get_track(track_id) IN
    IF track = None
    THEN [result |-> [error |-> "Track not found"], playback |-> P]
    ELSE
      LET g == MusicService_get_or_create_playback_state(P, companion_id)
          state == [g.result EXCEPT !.current_track_id = Some(track_id),
                                    !.is_playing = TRUE]
      IN  [result |-> [state |-> PlaybackState_to_dict(state),
                       track |-> track[1]],
           playback |-> [g.playback EXCEPT ![companion_id] = Some(state)]]

\* MusicService.play_track: [result, playback]
MusicService_play_track(P, companion_id, track_id) ==
    LET track == MusicService_get_track(track_id) IN
    IF track = None
    THEN [result |-> [error |-> "Track not found"], playback |-> P]
    ELSE
      LET g == MusicService_get_or_create_playback_state(P, companion_id)
          state == [g.result EXCEPT !.current_track_id = Some(track_id),
                                    !.is_playing = TRUE,
                                    !.progress = 0]
      IN  [result |-> [state |-> PlaybackState_to_dict(state),
                       track |-> track[1]],
           playback |-> [g.playback EXCEPT ![companion_id] = Some(state)]]

\* MusicService.pause_playback: [result, playback]
MusicService_pause_playback(P, companion_id) ==
    LET found == MusicService_get_playback_state(P, companion_id) IN
    IF found = None
    THEN [result |-> [error |-> "No playback state found"], playback |-> P]
    ELSE LET state == [found[1] EXCEPT !.is_playing = FALSE]
         IN  [result |-> [state |-> PlaybackState_to_dict(state)],
              playback |-> [P EXCEPT ![companion_id] = Some(state)]]

\* MusicService.resume_playback: [result, playback]
MusicService_resume_playback(P, companion_id) ==
    LET found == MusicService_get_playback_state(P, companion_id) IN
    IF found = None
    THEN [result |-> [error |-> "No playback state found"], playback |-> P]
    ELSE IF found[1].current_track_id = None
    THEN [result |-> [error |-> "No track to resume"], playback |-> P]
    ELSE LET state == [found[1] EXCEPT !.is_playing = TRUE]
         IN  [result |-> [state |-> PlaybackState_to_dict(state)],
              playback |-> [P EXCEPT ![companion_id] = Some(state)]]

\* MusicService.update_progress: [result, playback]
MusicService_update_progress(P, companion_id, progress) ==
    LET found == MusicService_get_playback_state(P, companion_id) IN
    IF found = None
    THEN [result |-> [error |-> "No playback state found"], playback |-> P]
    ELSE LET state == [found[1] EXCEPT !.progress = progress]
         IN  [result |-> [state |-> PlaybackState_to_dict(state)],
              playback |-> [P EXCEPT ![companion_id] = Some(state)]]

\* MusicService.stop_playback: [result, playback]
MusicService_stop_playback(P, companion_id) ==
    LET found == MusicService_get_playback_state(P, companion_id) IN
    IF found = None
    THEN [result |-> [error |-> "No playback state found"], playback |-> P]
    ELSE LET state == [found[1] EXCEPT !.current_track_id = None,
                                       !.is_playing = FALSE,
                                       !.progress = 0]
         IN  [result |-> [state |-> PlaybackState_to_dict(state)],
              playback |-> [P EXCEPT ![companion_id] = Some(state)]]

----------------------------------------------------------------------------
(* routers/games.py: the handlers.  A handler is an async function without  *)
(* an await, so within one server process it runs from request to response  *)
(* as one step.                                                              *)

Response(op, status, body) == [op |-> op, status |-> status, body |-> body]

Idle == [pc |-> "idle", game_id |-> "", companion_id |-> "", existing |-> None]

\* the values random.sample and random.randint may give for a game
RandomSamples(game_id) == IF game_id = "trivia" THEN Samples ELSE {<<>>}
RandomTargets(game_id) == IF game_id = "guess_number" THEN Targets ELSE {0}

\* the moves stored in the sessions table
RECURSIVE MovesMade(_)
MovesMade(S) ==
    IF S = <<>> THEN 0
    ELSE LET state == get_state(S[Len(S)])
         IN  MovesMade(SubSeq(S, 1, Len(S) - 1))
               + Len(Get(state, "words_used", <<>>))
               + Len(Get(state, "answers", <<>>))
               + Len(Get(state, "guesses", <<>>))

\* POST /sessions from the lookup's result on: return the existing session,
\* or create one
create_session_body(existing, game_id, companion_id) ==
    /\ IF existing # None
       THEN /\ sessions' = sessions
            /\ resp' = Response("create_session", 200,
                                session_to_dict(existing[1]))
       ELSE /\ \E sample \in RandomSamples(game_id),
                  target \in RandomTargets(game_id) :
                 LET S == GameService_create_session(sessions, game_id,
                                                     companion_id, sample, target)
                 IN  /\ sessions' = S
                     /\ resp' = Response("create_session", 200,
                                         session_to_dict(S[Len(S)]))
    /\ UNCHANGED <<records, plays, callVars, musicVars>>

\* POST /sessions
create_session(game_id, companion_id) ==
    /\ \E existing \in get_active_session(sessions, companion_id, game_id) :
         create_session_body(existing, game_id, companion_id)
    /\ UNCHANGED reqs

\* POST /sessions/{session_id}/end
end_session(session_id) ==
    LET r == GameService_end_session(sessions, records, session_id)
    IN  /\ IF r.result = None
           THEN resp' = Response("end_session", 404,
                                 [detail |-> "Session not found"])
           ELSE resp' = Response("end_session", 200, r.result[1])
        /\ sessions' = r.sessions
        /\ records' = r.records
        /\ UNCHANGED <<reqs, plays, callVars, musicVars>>

\* POST /sessions/{session_id}/word-chain
play_word_chain(session_id, word) ==
    LET r == GameService_play_word_chain(sessions, session_id, word)
        result == r.result
    IN  /\ resp' =
             IF "raised" \in DOMAIN result
             THEN Response("play_word_chain", 500,
                           [detail |-> "Internal Server Error"])
             ELSE IF "error" \in DOMAIN result /\ ~Get(result, "valid", TRUE)
             THEN Response("play_word_chain", 200, result)
             ELSE IF "error" \in DOMAIN result
             THEN Response("play_word_chain", 400,
                           [detail |-> result.error])
             ELSE Response("play_word_chain", 200, result)
        /\ sessions' = r.sessions
        /\ UNCHANGED <<records, reqs, plays, callVars, musicVars>>

\* POST /sessions/{session_id}/trivia
play_trivia(session_id, answer) ==
    LET r == GameService_play_trivia(sessions, session_id, answer)
        result == r.result
    IN  /\ resp' =
             IF "error" \in DOMAIN result /\ ~Get(result, "finished", FALSE)
             THEN Response("play_trivia", 400, [detail |-> result.error])
             ELSE Response("play_trivia", 200, result)
        /\ sessions' = r.sessions
        /\ UNCHANGED <<records, reqs, plays, callVars, musicVars>>

\* POST /sessions/{session_id}/guess-number
play_guess_number(session_id, guess) ==
    LET r == GameService_play_guess_number(sessions, session_id, guess)
        result == r.result
    IN  /\ resp' =
             IF "error" \in DOMAIN result /\ ~Get(result, "finished", FALSE)
             THEN Response("play_guess_number", 400,
                           [detail |-> result.error])
             ELSE Response("play_guess_number", 200, result)
        /\ sessions' = r.sessions
        /\ UNCHANGED <<records, reqs, plays, callVars, musicVars>>

\* GET /stats that deletes the records it has counted
get_game_stats_purge(companion_id) ==
    /\ resp' = Response("get_game_stats", 200,
                        GameService_get_statistics(records, companion_id))
    /\ records' = SelectSeq(records,
                            LAMBDA r : r.companion_id # companion_id)
    /\ UNCHANGED <<sessions, reqs, plays, callVars, musicVars>>

\* GET /stats
get_game_stats(companion_id) ==
    /\ resp' = Response("get_game_stats", 200,
                        GameService_get_statistics(records, companion_id))
    /\ UNCHANGED <<sessions, records, reqs, plays, callVars, musicVars>>

----------------------------------------------------------------------------
(* routers/games.py, play_word_chain run by several server processes on    *)
(* one database: a request reads the rows through its own database session *)
(* (get_db), computes the move on what it read, and commits the columns it  *)
(* changed.                                                                  *)

RaceCallers == {1, 2}

IdlePlay ==
    [pc |-> "idle", session_id |-> 0, word |-> <<>>, snapshot |-> <<>>,
     result |-> EmptyDict, n |-> 0]

\* the handler up to the read of get_session
play_word_chain_read(k, session_id, word) ==
    /\ plays[k].pc \in {"idle", "done"}
    /\ plays' = [plays EXCEPT ![k] =
                   [pc |-> "read", session_id |-> session_id, word |-> word,
                    snapshot |-> sessions, result |-> EmptyDict,
                    n |-> plays[k].n + 1]]
    /\ UNCHANGED <<sessions, records, resp, reqs, callVars, musicVars>>

\* the row after a commit that takes the state column from the rows as
\* they are in the database now
commit_state_merged(S, snapshot, session_id, word) ==
    GameService_play_word_chain(S, session_id, word).sessions

\* the rows after the commit of a request that read snapshot: the UPDATE
\* writes the state column of the row the request changed
commit_state(S, snapshot, session_id, word) ==
    LET r == GameService_play_word_chain(snapshot, session_id, word) IN
    IF r.sessions = snapshot THEN S
    ELSE [S EXCEPT ![session_id].state = r.sessions[session_id].state]

\* the handler from the move to the response
play_word_chain_commit(k) ==
    /\ plays[k].pc = "read"
    /\ LET r == GameService_play_word_chain(plays[k].snapshot,
                                            plays[k].session_id,
                                            plays[k].word)
           result == r.result
           response ==
               IF "raised" \in DOMAIN result
               THEN Response("play_word_chain", 500,
                             [detail |-> "Internal Server Error"])
               ELSE IF "error" \in DOMAIN result
                       /\ ~Get(result, "valid", TRUE)
               THEN Response("play_word_chain", 200, result)
               ELSE IF "error" \in DOMAIN result
               THEN Response("play_word_chain", 400,
                             [detail |-> result.error])
               ELSE Response("play_word_chain", 200, result)
       IN  /\ resp' = response
           /\ sessions' = commit_state(sessions, plays[k].snapshot,
                                       plays[k].session_id, plays[k].word)
           /\ plays' = [plays EXCEPT ![k].pc = "done",
                                     ![k].result = response.body]
    /\ UNCHANGED <<records, reqs, callVars, musicVars>>

----------------------------------------------------------------------------
(* routers/call.py.  The companions table is the fixed set CompanionRows.  *)
(* The WebSocket handler runs from one await of receive_json to the next   *)
(* as one step; ws is its position, the id in its path and the last        *)
(* message it sent.                                                         *)

CompanionRows == CompanionIds

NoMessage == [type |-> "none", status |-> ""]

ClosedSocket == [pc |-> "closed", session_id |-> 0, out |-> NoMessage]

\* POST /start
start_call(companion_id) ==
    /\ IF companion_id \notin CompanionRows
       THEN /\ resp' = Response("start_call", 404,
                                [detail |-> "Companion not found"])
            /\ UNCHANGED <<call_sessions, active_sessions>>
       ELSE LET r == CallService_create_session(call_sessions,
                                                active_sessions, companion_id)
            IN  /\ resp' = Response("start_call", 200,
                                    CallSession_to_dict(r.result))
                /\ call_sessions' = r.call_sessions
                /\ active_sessions' = r.active_sessions
    /\ UNCHANGED <<sessions, records, reqs, plays, ws, musicVars>>

\* POST /end
end_call(session_id) ==
    /\ LET r == CallService_end_session(call_sessions, active_sessions,
                                        session_id)
       IN  /\ resp' = IF ~r.result
                      THEN Response("end_call", 404,
                                    [detail |-> "Session not found"])
                      ELSE Response("end_call", 200,
                                    [message |-> "Call ended",
                                     session_id |-> session_id])
           /\ call_sessions' = r.call_sessions
           /\ active_sessions' = r.active_sessions
    /\ UNCHANGED <<sessions, records, reqs, plays, ws, musicVars>>

\* GET /session/{session_id}
call_get_session(session_id) ==
    /\ LET session == CallService_get_session(call_sessions, active_sessions,
                                              session_id)
       IN  resp' = IF session = None
                   THEN Response("get_session", 404,
                                 [detail |-> "Session not found"])
                   ELSE Response("get_session", 200,
                                 CallSession_to_dict(session[1]))
    /\ UNCHANGED <<sessions, records, reqs, plays, callVars, musicVars>>

\* CallService.activate_session called on the service; resp holds what the
\* call returns
activate_session(session_id) ==
    /\ LET r == CallService_activate_session(call_sessions, active_sessions,
                                             session_id)
       IN  /\ resp' = Response("activate_session", 0, [result |-> r.result])
           /\ call_sessions' = r.call_sessions
           /\ active_sessions' = r.active_sessions
    /\ UNCHANGED <<sessions, records, reqs, plays, ws, musicVars>>

\* CallService.cleanup_stale_sessions called on the service, stale_ids being
\* the held sessions older than max_duration_seconds
cleanup_stale_sessions(stale_ids) ==
    /\ stale_ids \subseteq active_sessions
    /\ LET r == CallService_cleanup_stale_sessions(call_sessions,
                                                   active_sessions, stale_ids)
       IN  /\ resp' = Response("cleanup_stale_sessions", 0,
                               [result |-> r.result])
           /\ call_sessions' = r.call_sessions
           /\ active_sessions' = r.active_sessions
    /\ UNCHANGED <<sessions, records, reqs, plays, ws, musicVars>>

\* WS /ws/{session_id}, from the connection to the first receive_json
websocket_call_connect(session_id) ==
    /\ ws.pc = "closed"
    /\ LET session == CallService_get_session(call_sessions, active_sessions,
                                              session_id)
       IN  ws' = IF session = None
                 THEN [pc |-> "closed", session_id |-> session_id,
                       out |-> [type |-> "error",
                                status |-> "Session not found"]]
                 ELSE [pc |-> "open", session_id |-> session_id,
                       out |-> [type |-> "status",
                                status |-> session[1].status]]
    /\ UNCHANGED <<sessions, records, resp, reqs, plays, call_sessions,
                   active_sessions, musicVars>>

\* the handler's turn on {"type": "activate"}
websocket_call_activate ==
    /\ ws.pc = "open"
    /\ LET r == CallService_activate_session(call_sessions, active_sessions,
                                             ws.session_id)
       IN  /\ call_sessions' = r.call_sessions
           /\ active_sessions' = r.active_sessions
           /\ ws' = [ws EXCEPT !.out = [type |-> "status",
                                        status |-> CallStatus.ACTIVE]]
    /\ UNCHANGED <<sessions, records, resp, reqs, plays, musicVars>>

\* the handler's turn on {"type": "speech", "text": ...} with a text
websocket_call_speech ==
    /\ ws.pc = "open"
    /\ IF call_sessions[ws.session_id].status = CallStatus.ACTIVE
       THEN LET result == CallService_process_user_speech(
                              call_sessions, active_sessions, ws.session_id)
            IN  ws' = [ws EXCEPT !.out = [type |-> "response",
                                          status |-> Get(result, "text", "")]]
       ELSE UNCHANGED ws
    /\ UNCHANGED <<sessions, records, resp, reqs, plays, call_sessions,
                   active_sessions, musicVars>>

\* the handler's turn on {"type": "end"}
websocket_call_end ==
    /\ ws.pc = "open"
    /\ LET r == CallService_end_session(call_sessions, active_sessions,
                                        ws.session_id)
       IN  /\ call_sessions' = r.call_sessions
           /\ active_sessions' = r.active_sessions
           /\ ws' = [ws EXCEPT !.pc = "closed",
                               !.out = [type |-> "status",
                                        status |-> CallStatus.ENDED]]
    /\ UNCHANGED <<sessions, records, resp, reqs, plays, musicVars>>

\* the handler's turn on WebSocketDisconnect
websocket_call_disconnect ==
    /\ ws.pc = "open"
    /\ LET r == CallService_end_session(call_sessions, active_sessions,
                                        ws.session_id)
       IN  /\ call_sessions' = r.call_sessions
           /\ active_sessions' = r.active_sessions
           /\ ws' = [ws EXCEPT !.pc = "closed"]
    /\ UNCHANGED <<sessions, records, resp, reqs, plays, musicVars>>

----------------------------------------------------------------------------
(* routers/music.py: the playback endpoints                                 *)

\* what a playback endpoint leaves alone
playbackFrame == <<sessions, records, reqs, plays, callVars>>

\* the response of a playback endpoint that answers an error with status
playback_response(op, result, status) ==
    IF "error" \in DOMAIN result
    THEN Response(op, status, [detail |-> result.error])
    ELSE Response(op, 200, result)

\* GET /playback/{companion_id}
get_playback_state(companion_id) ==
    /\ LET g == MusicService_get_or_create_playback_state(playback,
                                                          companion_id)
           result == PlaybackState_to_dict(g.result)
       IN  /\ resp' = Response("get_playback_state", 200,
                 IF g.result.current_track_id # None
                    /\ MusicService_get_track(g.result.current_track_id[1])
                         # None
                 THEN Put(result, "current_track",
                          g.result.current_track_id[1])
                 ELSE result)
           /\ playback' = g.playback
    /\ UNCHANGED playbackFrame

\* POST /playback/{companion_id}/play/{track_id}
play_track(companion_id, track_id) ==
    /\ LET r == MusicService_play_track(playback, companion_id, track_id)
       IN  /\ resp' = playback_response("play_track", r.result, 404)
           /\ playback' = r.playback
    /\ UNCHANGED playbackFrame

\* POST /playback/{companion_id}/pause
pause_playback(companion_id) ==
    /\ LET r == MusicService_pause_playback(playback, companion_id)
       IN  /\ resp' = playback_response("pause_playback", r.result, 404)
           /\ playback' = r.playback
    /\ UNCHANGED playbackFrame

\* POST /playback/{companion_id}/resume
resume_playback(companion_id) ==
    /\ LET r == MusicService_resume_playback(playback, companion_id)
       IN  /\ resp' = playback_response("resume_playback", r.result, 400)
           /\ playback' = r.playback
    /\ UNCHANGED playbackFrame

\* POST /playback/{companion_id}/stop
stop_playback(companion_id) ==
    /\ LET r == MusicService_stop_playback(playback, companion_id)
       IN  /\ resp' = playback_response("stop_playback", r.result, 404)
           /\ playback' = r.playback
    /\ UNCHANGED playbackFrame

\* PUT /playback/{companion_id}/progress
update_progress(companion_id, progress) ==
    /\ LET r == MusicService_update_progress(playback, companion_id, progress)
       IN  /\ resp' = playback_response("update_progress", r.result, 404)
           /\ playback' = r.playback
    /\ UNCHANGED playbackFrame

\* the values of plays, the call service and the playback table when the
\* server starts
InitServices ==
    /\ plays = [k \in RaceCallers |-> IdlePlay]
    /\ call_sessions = <<>>
    /\ active_sessions = {}
    /\ ws = ClosedSocket
    /\ playback = [c \in CompanionIds |-> None]

----------------------------------------------------------------------------
(* The server with one request at a time *)

Init ==
    /\ sessions = <<>>
    /\ records = <<>>
    /\ resp = Response("none", 0, EmptyDict)
    /\ reqs = [k \in 1..NumClients |-> Idle]
    /\ InitServices

\* the size of the database: its rows and the moves stored in them
DbSize(S, R) == Len(S) + Len(R) + MovesMade(S)

Bounded == DbSize(sessions', records') <= MaxDbSize

StartSession ==
    /\ \E g \in GameIds, c \in CompanionIds : create_session(g, c)
    /\ Bounded

EndSession ==
    /\ \E sid \in SessionIds : end_session(sid)
    /\ Bounded

PlayWordChain ==
    /\ \E sid \in SessionIds, word \in Words : play_word_chain(sid, word)
    /\ Bounded

PlayTrivia ==
    /\ \E sid \in SessionIds, answer \in AnswerInputs : play_trivia(sid, answer)
    /\ Bounded

PlayGuessNumber ==
    /\ \E sid \in SessionIds, guess \in GuessInputs :
         play_guess_number(sid, guess)
    /\ Bounded

Next ==
    \/ StartSession
    \/ EndSession
    \/ PlayWordChain
    \/ PlayTrivia
    \/ PlayGuessNumber

Spec == Init /\ [][Next]_vars

----------------------------------------------------------------------------
(* POST /sessions requests whose lookup and creation interleave (several   *)
(* server processes on one database)                                         *)

\* the game the concurrent requests ask for
ConcGameIds == {"word_chain"}

\* the handler up to the lookup
LookupActive(k) ==
    /\ reqs[k].pc = "idle"
    /\ \E g \in ConcGameIds, c \in CompanionIds :
         \E existing \in get_active_session(sessions, c, g) :
           reqs' = [reqs EXCEPT ![k] = [pc |-> "looked", game_id |-> g,
                                        companion_id |-> c,
                                        existing |-> existing]]
    /\ UNCHANGED <<sessions, records, resp, plays, callVars, musicVars>>

\* the handler from the lookup's result to the response
CreateOrReturn(k) ==
    /\ reqs[k].pc = "looked"
    /\ create_session_body(reqs[k].existing, reqs[k].game_id,
                           reqs[k].companion_id)
    /\ reqs' = [reqs EXCEPT ![k] = Idle]

Lookup == \E k \in 1..NumClients : LookupActive(k)

Create ==
    /\ \E k \in 1..NumClients : CreateOrReturn(k)
    /\ Bounded

NextConc ==
    \/ Lookup
    \/ Create
    \/ EndSession

SpecConc == Init /\ [][NextConc]_vars

----------------------------------------------------------------------------
(* One session of one game, played to its end                               *)

MaxEnded == 1       \* end_session calls on the session in SpecGame

\* the inputs of the single session's play calls
ChainWords == {<<>>, <<"a">>, <<"a", "b">>, <<"b", "a">>, <<"b", "b">>}
GameAnswers == {"Pacific", "Yangtze"}
GameGuesses == {30, 42, 101}
GameTargets == {30, 42}
GameSamples == { <<3, 1, 5, 2, 4>>, <<1, 2, 3, 4, 5>> }

\* the database after one POST /sessions
InitGame ==
    /\ \E g \in GameIds :
         \E sample \in (IF g = "trivia" THEN GameSamples ELSE {<<>>}),
            target \in (IF g = "guess_number" THEN GameTargets ELSE {0}) :
           sessions = GameService_create_session(<<>>, g, "c1", sample, target)
    /\ records = <<>>
    /\ resp = Response("create_session", 200, session_to_dict(sessions[1]))
    /\ reqs = [k \in 1..NumClients |-> Idle]
    /\ InitServices

GameWordChain == \E word \in ChainWords : play_word_chain(1, word)

GameTrivia == \E answer \in GameAnswers : play_trivia(1, answer)

GameGuessNumber == \E guess \in GameGuesses : play_guess_number(1, guess)

GameEnd ==
    /\ end_session(1)
    /\ Len(records') <= MaxEnded

NextGame ==
    \/ GameWordChain
    \/ GameTrivia
    \/ GameGuessNumber
    \/ GameEnd

SpecGame == InitGame /\ [][NextGame]_vars

----------------------------------------------------------------------------
(* One session whose scores are set through update_session_state, then     *)
(* ended                                                                    *)

MaxScore == 2       \* the scores written by update_session_state

Scores == 0..MaxScore

\* GameService.update_session_state called on the session with its state
\* and the two scores replaced; the service method has no route, so no
\* response is sent
ScoreUpdate ==
    \E us \in Scores, cs \in Scores :
      LET state == get_state(sessions[1])
          new_state == Put(Put(state, "user_score", us),
                           "companion_score", cs)
          r == GameService_update_session_state(sessions, 1, new_state)
      IN  /\ r.result # None
          /\ sessions' = r.sessions
          /\ UNCHANGED <<records, resp, reqs, plays, callVars, musicVars>>

NextScores ==
    \/ ScoreUpdate
    \/ GameEnd

SpecScores == InitGame /\ [][NextScores]_vars

----------------------------------------------------------------------------
(* The statistics of a table of records                                    *)

MaxStatRecords == 3     \* rows of the records table in SpecStats

\* the final scores of the sessions the records were made from
StatScores == {<<1, 0>>, <<0, 1>>, <<0, 0>>}

\* the record end_session makes of the ended session of a companion and a
\* game with the final scores sc, as row i
StatRecord(companion_id, game_id, sc, i) ==
    new_record([id |-> i, game_id |-> game_id, companion_id |-> companion_id,
                is_active |-> FALSE,
                state |-> [json |-> [user_score |-> sc[1],
                                     companion_score |-> sc[2]]]], i)

\* a records table of at most MaxStatRecords rows, each made by end_session
InitStats ==
    /\ \E n \in 0..MaxStatRecords :
         \E f \in [1..n -> CompanionIds \X GameIds \X StatScores] :
           records = [i \in 1..n |-> StatRecord(f[i][1], f[i][2], f[i][3], i)]
    /\ sessions = <<>>
    /\ resp = Response("none", 0, EmptyDict)
    /\ reqs = [k \in 1..NumClients |-> Idle]
    /\ InitServices

GetStats == \E c \in CompanionIds : get_game_stats(c)

NextStats == GetStats

SpecStats == InitStats /\ [][NextStats]_vars

----------------------------------------------------------------------------
(* The server of the games with GET /stats                                  *)

NextServer ==
    \/ StartSession
    \/ EndSession
    \/ PlayWordChain
    \/ PlayTrivia
    \/ PlayGuessNumber
    \/ GetStats

SpecServer == Init /\ [][NextServer]_vars

----------------------------------------------------------------------------
(* Word-chain moves of two requests whose read and commit interleave        *)

MaxPlays == 2       \* moves each caller makes in SpecRace

RaceWords == {<<"a">>, <<"a", "b">>, <<"b", "a">>}

\* the database after one POST /sessions for word_chain
InitRace ==
    /\ sessions = GameService_create_session(<<>>, "word_chain", "c1", <<>>, 0)
    /\ records = <<>>
    /\ resp = Response("create_session", 200, session_to_dict(sessions[1]))
    /\ reqs = [k \in 1..NumClients |-> Idle]
    /\ InitServices

RaceRead ==
    \E k \in RaceCallers, word \in RaceWords :
      /\ plays[k].n < MaxPlays
      /\ play_word_chain_read(k, 1, word)

RaceCommit == \E k \in RaceCallers : play_word_chain_commit(k)

NextRace ==
    \/ RaceRead
    \/ RaceCommit

SpecRace == InitRace /\ [][NextRace]_vars

----------------------------------------------------------------------------
(* The call service, POST /start, POST /end and one call WebSocket          *)

MaxCalls == 2       \* CallSession objects made in SpecCall

CallIds == 1..(MaxCalls + 1)

\* the companion_id of POST /start: one with a row and one without
CallCompanions == {"c1", "c0"}

StartCall ==
    /\ \E c \in CallCompanions : start_call(c)
    /\ Len(call_sessions') <= MaxCalls

EndCall == \E sid \in CallIds : end_call(sid)

GetCallSession == \E sid \in CallIds : call_get_session(sid)

ActivateSession == \E sid \in CallIds : activate_session(sid)

CleanupStaleSessions ==
    \E stale_ids \in SUBSET active_sessions :
      /\ stale_ids # {}
      /\ cleanup_stale_sessions(stale_ids)

SocketConnect == \E sid \in CallIds : websocket_call_connect(sid)

NextCall ==
    \/ StartCall
    \/ EndCall
    \/ GetCallSession
    \/ ActivateSession
    \/ CleanupStaleSessions
    \/ SocketConnect
    \/ websocket_call_activate
    \/ websocket_call_speech
    \/ websocket_call_end
    \/ websocket_call_disconnect

SpecCall == Init /\ [][NextCall]_vars

----------------------------------------------------------------------------
(* The music player of the companions                                       *)

\* the track_id of a play request: the tracks and an id without a row
TrackInputs == TrackRows \cup {"t0"}

\* the progress a client reports, in seconds
ProgressInputs == {5}

GetPlayback == \E c \in CompanionIds : get_playback_state(c)

PlayTrack == \E c \in CompanionIds, t \in TrackInputs : play_track(c, t)

PausePlayback == \E c \in CompanionIds : pause_playback(c)

ResumePlayback == \E c \in CompanionIds : resume_playback(c)

StopPlayback == \E c \in CompanionIds : stop_playback(c)

UpdateProgress ==
    \E c \in CompanionIds, p \in ProgressInputs : update_progress(c, p)

NextMusic ==
    \/ GetPlayback
    \/ PlayTrack
    \/ PausePlayback
    \/ ResumePlayback
    \/ StopPlayback
    \/ UpdateProgress

SpecMusic == Init /\ [][NextMusic]_vars

----------------------------------------------------------------------------
(* One guess_number session with the target at an end of the range and     *)
(* guesses on both sides of the range                                       *)

EdgeTargets == {MinRange, MaxRange}
EdgeGuesses == {MinRange - 1, MinRange, MaxRange, MaxRange + 1}

\* the database after one POST /sessions for guess_number
InitGuess ==
    /\ \E target \in EdgeTargets :
         sessions = GameService_create_session(<<>>, "guess_number", "c1",
                                               <<>>, target)
    /\ records = <<>>
    /\ resp = Response("create_session", 200, session_to_dict(sessions[1]))
    /\ reqs = [k \in 1..NumClients |-> Idle]
    /\ InitServices

GuessEdge == \E guess \in EdgeGuesses : play_guess_number(1, guess)

NextGuess == GuessEdge

SpecGuess == InitGuess /\ [][NextGuess]_vars

----------------------------------------------------------------------------
(* Properties *)

Exists(sid) == sid \in 1..Len(sessions)

\* the active rows of a (companion, game) pair
ActiveOfPair(S, c, g) ==
    { i \in 1..Len(S) : S[i].is_active /\ S[i].companion_id = c
                                       /\ S[i].game_id = g }

\* C1: with one request at a time, every (owner_id, game_id) pair has at
\* most one GameSession with is_active = true, in every reachable state.
C1_OneActivePerPair ==
    \A i, j \in 1..Len(sessions) :
        ( /\ sessions[i].is_active /\ sessions[j].is_active
          /\ sessions[i].companion_id = sessions[j].companion_id
          /\ sessions[i].game_id = sessions[j].game_id ) => i = j

\* a pair whose first session was ended and that was started again
C1_Witness ==
    /\ resp.op = "create_session"
    /\ \E i, j \in 1..Len(sessions) :
         /\ i # j
         /\ sessions[i].companion_id = sessions[j].companion_id
         /\ sessions[i].game_id = sessions[j].game_id
         /\ ~sessions[i].is_active
         /\ sessions[j].is_active

\* C2: when the lookups and creations of two POST /sessions requests for
\* one pair interleave, at most one active session of the pair exists once
\* both requests have completed.
C2_OneActiveAfterConcurrentStarts ==
    (\A k \in 1..NumClients : reqs[k].pc = "idle") =>
        \A c \in CompanionIds, g \in GameIds :
            Cardinality(ActiveOfPair(sessions, c, g)) <= 1

\* C3: every play call against an ended session (is_active = false) is
\* answered InvalidState (400) and leaves the sessions unchanged.
C3_NoMoveOnEndedSession ==
    [][ \A sid \in SessionIds :
          (Exists(sid) /\ ~sessions[sid].is_active) =>
            /\ \A word \in Words \ {<<>>} : play_word_chain(sid, word) =>
                 (resp'.status = 400 /\ sessions' = sessions)
            /\ \A answer \in AnswerInputs : play_trivia(sid, answer) =>
                 (resp'.status = 400 /\ sessions' = sessions)
            /\ \A guess \in GuessInputs : play_guess_number(sid, guess) =>
                 (resp'.status = 400 /\ sessions' = sessions) ]_vars

\* C4 as stated: records are created only by end_session, and no two
\* GameRecords have the same session_id.
C4_OneRecordPerSession ==
    [][ records' # records =>
          /\ \E sid \in SessionIds : end_session(sid)
          /\ \A i, j \in 1..Len(records') :
               records'[i].session_id = records'[j].session_id => i = j ]_vars

\* C4 amended: a GameRecord is created once per successful end_session call:
\* each end_session of an existing session appends exactly one record with
\* that session_id and leaves the earlier records as they were, records
\* change in no other step, and the session of every record is inactive.
C4_OneRecordPerEndCall ==
    [][ /\ \A sid \in SessionIds :
             (Exists(sid) /\ end_session(sid)) =>
               /\ Len(records') = Len(records) + 1
               /\ SubSeq(records', 1, Len(records)) = records
               /\ records'[Len(records')].session_id = sid
        /\ records' # records => \E sid \in SessionIds : end_session(sid)
        /\ \A i \in 1..Len(records') :
             /\ records'[i].session_id \in 1..Len(sessions')
             /\ ~sessions'[records'[i].session_id].is_active ]_vars

\* one session with two records
C4_Witness ==
    \E i, j \in 1..Len(records) :
        i # j /\ records[i].session_id = records[j].session_id

\* C5: end_session of a session that was already ended succeeds (200) and
\* adds a further GameRecord with the same session_id.
C5_SecondEndAddsRecord ==
    [][ \A sid \in SessionIds :
          (Exists(sid) /\ ~sessions[sid].is_active /\ end_session(sid)) =>
            /\ resp'.status = 200
            /\ resp'.body.session_id = sid
            /\ Len(records') = Len(records) + 1
            /\ records'[Len(records')].session_id = sid
            /\ \E i \in 1..Len(records) : records[i].session_id = sid ]_vars

\* the response to a second end_session of one session
C5_Witness ==
    /\ resp.op = "end_session"
    /\ resp.status = 200
    /\ \E i \in 1..Len(records) :
         /\ records[i].id # resp.body.id
         /\ records[i].session_id = resp.body.session_id

\* C6: POST /sessions for a pair that has an active session returns that
\* session, creates none and changes none; and a POST /sessions that
\* directly follows one for the same pair returns the same id.
C6_IdempotentStart ==
    [][ \A g \in GameIds, c \in CompanionIds :
          create_session(g, c) =>
            /\ ActiveOfPair(sessions, c, g) # {} =>
                 /\ sessions' = sessions
                 /\ resp'.status = 200
                 /\ resp'.body.id \in ActiveOfPair(sessions, c, g)
                 /\ resp'.body.state = sessions[resp'.body.id].state.json
            /\ ( /\ resp.op = "create_session"
                 /\ resp.body.game_id = g
                 /\ resp.body.companion_id = c ) =>
                 resp'.body.id = resp.body.id ]_vars

\* POST /sessions answered with a session that is not the newest row
C6_Witness ==
    /\ resp.op = "create_session"
    /\ resp.body.id < Len(sessions)
    /\ resp.body.is_active

\* C7: a session is active when created, no step deletes a session or
\* changes its id, a session that is inactive stays inactive, and only
\* end_session of that session makes it inactive.
C7_ActiveFallsOnce ==
    [][ /\ Len(sessions') >= Len(sessions)
        /\ \A i \in 1..Len(sessions') :
             IF i > Len(sessions) THEN sessions'[i].is_active
             ELSE /\ sessions'[i].id = sessions[i].id
                  /\ ~sessions[i].is_active => ~sessions'[i].is_active
                  /\ (sessions[i].is_active /\ ~sessions'[i].is_active) =>
                       end_session(i) ]_vars

\* a session ended twice, still inactive after the second end_session
C7_Witness ==
    /\ resp.op = "end_session"
    /\ resp.status = 200
    /\ ~sessions[resp.body.session_id].is_active
    /\ \E i \in 1..Len(records) :
         /\ records[i].id < resp.body.id
         /\ records[i].session_id = resp.body.session_id

\* C8: play against an unknown session_id is answered 404, play of the
\* wrong game's action is answered 400, and neither changes a session.
C8_PlayNotFoundOrInvalid ==
    [][ \A sid \in SessionIds :
          /\ \A word \in Words \ {<<>>} : play_word_chain(sid, word) =>
               /\ ~Exists(sid) => (resp'.status = 404 /\ sessions' = sessions)
               /\ (Exists(sid) /\ sessions[sid].game_id # "word_chain") =>
                    (resp'.status = 400 /\ sessions' = sessions)
          /\ \A answer \in AnswerInputs : play_trivia(sid, answer) =>
               /\ ~Exists(sid) => (resp'.status = 404 /\ sessions' = sessions)
               /\ (Exists(sid) /\ sessions[sid].game_id # "trivia") =>
                    (resp'.status = 400 /\ sessions' = sessions)
          /\ \A guess \in GuessInputs : play_guess_number(sid, guess) =>
               /\ ~Exists(sid) => (resp'.status = 404 /\ sessions' = sessions)
               /\ (Exists(sid) /\ sessions[sid].game_id # "guess_number") =>
                    (resp'.status = 400 /\ sessions' = sessions) ]_vars

\* C9: the outcome of a guess that leaves the game unfinished carries the
\* target nowhere: its target field is None and the state it echoes has no
\* target.
C9_TargetWithheldUntilFinished ==
    ( /\ resp.op = "play_guess_number"
      /\ resp.status = 200
      /\ "hint" \in DOMAIN resp.body
      /\ ~resp.body.finished ) =>
        /\ resp.body.target = None
        /\ "target" \notin DOMAIN resp.body.state

\* C10: a word_chain move whose word is in words_used is answered 200 with
\* valid = false and reason already used, and no session changes.
C10_RepeatedWordRejected ==
    [][ \A sid \in SessionIds, word \in Words :
          ( /\ Exists(sid)
            /\ sessions[sid].game_id = "word_chain"
            /\ InList(word, sessions[sid].state.json.words_used)
            /\ play_word_chain(sid, word) ) =>
              /\ resp'.status = 200
              /\ resp'.body = [error |-> "already used", valid |-> FALSE]
              /\ sessions' = sessions ]_vars

\* a repeated word was rejected
C10_Witness ==
    /\ resp.op = "play_word_chain"
    /\ resp.status = 200
    /\ "error" \in DOMAIN resp.body
    /\ resp.body.error = "already used"
    /\ \E i \in 1..Len(sessions) :
         /\ sessions[i].game_id = "word_chain"
         /\ Len(sessions[i].state.json.words_used) = 1

----------------------------------------------------------------------------
(* Properties of one game played to its end (SpecGame)                     *)

\* the state of the one session of SpecGame, before and after a step
GameIs(g) == sessions[1].game_id = g
Old == sessions[1].state.json
New == sessions'[1].state.json

\* C11: in a word_chain session whose current_word is set, a non-empty word
\* whose first character differs from the last character of current_word is
\* rejected with valid false and the state unchanged; a word whose first
\* character equals it and that is not in words_used is accepted.
C11_ChainRule ==
    [][\A word \in ChainWords \ {<<>>} :
         (/\ GameIs("word_chain")
          /\ Old.current_word # None
          /\ Old.current_word[1] # <<>>
          /\ play_word_chain(1, word))
         => LET cw == Old.current_word[1] IN
            IF word[1] # cw[Len(cw)]
            THEN /\ resp'.status = 200
                 /\ resp'.body.valid = FALSE
                 /\ sessions' = sessions
            ELSE (\A i \in 1..Len(Old.words_used) : Old.words_used[i] # word)
                 => /\ resp'.status = 200
                    /\ resp'.body.valid = TRUE
                    /\ New.current_word = Some(word)]_vars

\* a word was refused for not chaining, and a second word was chained
C11_Witness ==
    /\ GameIs("word_chain")
    /\ resp.op = "play_word_chain"
    /\ "error" \in DOMAIN resp.body
    /\ resp.body.error \in {"must start with a", "must start with b"}
    /\ Len(Old.words_used) >= 2

\* C12: an accepted word_chain move appends the word to words_used, sets
\* current_word to it, adds one to user_score and to rounds, sets turn to
\* "companion", and the persisted state is the state the response echoes.
C12_AcceptedMove ==
    [][\A word \in ChainWords :
         (/\ GameIs("word_chain")
          /\ play_word_chain(1, word)
          /\ resp'.status = 200
          /\ "valid" \in DOMAIN resp'.body
          /\ resp'.body.valid)
         => /\ New.words_used = Old.words_used \o <<word>>
            /\ New.current_word = Some(word)
            /\ New.user_score = Old.user_score + 1
            /\ New.rounds = Old.rounds + 1
            /\ New.turn = "companion"
            /\ New.companion_score = Old.companion_score
            /\ resp'.body.word = word
            /\ resp'.body.state = New]_vars

\* the third word of a chain was accepted
C12_Witness ==
    /\ GameIs("word_chain")
    /\ resp.op = "play_word_chain"
    /\ "valid" \in DOMAIN resp.body
    /\ resp.body.valid
    /\ Old.rounds = 3
    /\ Old.user_score = 3
    /\ Len(Old.words_used) = 3

\* C13: a trivia answer given while current_index < len(questions) is correct
\* iff it equals the answer of questions[current_index]; user_score grows by
\* one when correct and is unchanged otherwise; one entry is appended to
\* answers; current_index grows by one; finished is true iff the new
\* current_index >= len(questions).
C13_TriviaAnswer ==
    [][\A answer \in GameAnswers :
         (/\ GameIs("trivia")
          /\ Old.current_index < Len(Old.questions)
          /\ play_trivia(1, answer))
         => LET q == Old.questions[Old.current_index + 1]
                correct == (answer = q.answer)
            IN  /\ resp'.status = 200
                /\ resp'.body.correct = correct
                /\ resp'.body.correct_answer = q.answer
                /\ New.user_score
                     = Old.user_score + (IF correct THEN 1 ELSE 0)
                /\ Len(New.answers) = Len(Old.answers) + 1
                /\ SubSeq(New.answers, 1, Len(Old.answers)) = Old.answers
                /\ New.answers[Len(New.answers)].user_answer = answer
                /\ New.answers[Len(New.answers)].correct = correct
                /\ New.current_index = Old.current_index + 1
                /\ New.questions = Old.questions
                /\ resp'.body.finished
                     = (New.current_index >= Len(New.questions))]_vars

\* the last question was answered after a wrong and a correct answer
C13_Witness ==
    /\ GameIs("trivia")
    /\ resp.op = "play_trivia"
    /\ "correct" \in DOMAIN resp.body
    /\ resp.body.finished
    /\ Old.current_index = Len(Old.questions)
    /\ Old.user_score >= 1
    /\ Old.user_score < Old.current_index

\* C14: a trivia answer given when current_index >= len(questions) yields
\* the finished-already outcome and changes nothing, so current_index never
\* exceeds len(questions).
C14_TriviaFinishedAlready ==
    [][/\ \A answer \in GameAnswers :
            (/\ GameIs("trivia")
             /\ Old.current_index >= Len(Old.questions)
             /\ play_trivia(1, answer))
            => /\ resp'.status = 200
               /\ resp'.body = [error |-> "No more questions",
                                finished |-> TRUE]
               /\ sessions' = sessions
       /\ GameIs("trivia") => New.current_index <= Len(New.questions)]_vars

\* an answer was refused after the last question
C14_Witness ==
    /\ GameIs("trivia")
    /\ resp.op = "play_trivia"
    /\ "error" \in DOMAIN resp.body
    /\ resp.body.error = "No more questions"
    /\ Old.current_index = Len(Old.questions)
    /\ Len(Old.answers) = Len(Old.questions)

\* whether a guess_number state takes no more guesses
GuessOver(st) == st.won \/ Len(st.guesses) >= st.max_guesses

\* C15: a guess equal to the target sets won and
\* user_score = max_guesses - len(guesses) + 1, the winning guess counted;
\* the score of a won game lies in 1..max_guesses and is 1 when the target
\* is hit on the last allowed guess.
C15_GuessScore ==
    [][/\ \A guess \in GameGuesses :
            (/\ GameIs("guess_number")
             /\ ~GuessOver(Old)
             /\ guess = Old.target
             /\ play_guess_number(1, guess))
            => /\ New.won
               /\ New.guesses = Old.guesses \o <<guess>>
               /\ New.user_score
                    = Old.max_guesses - Len(New.guesses) + 1
               /\ resp'.body.hint = "correct"
               /\ resp'.body.won
       /\ (GameIs("guess_number") /\ New.won)
            => /\ New.user_score \in 1..New.max_guesses
               /\ Len(New.guesses) = New.max_guesses
                    => New.user_score = 1]_vars

\* the target was hit on the seventh guess
C15_Witness ==
    /\ GameIs("guess_number")
    /\ Old.won
    /\ Len(Old.guesses) = MaxGuesses
    /\ Old.user_score = 1

\* C16: a guess below the target gives hint "higher" and sets min_range to
\* max(min_range, guess + 1); a guess above it gives hint "lower" and sets
\* max_range to min(max_range, guess - 1); min_range never decreases and
\* max_range never increases.
C16_RangeNarrowing ==
    [][/\ \A guess \in GameGuesses :
            (/\ GameIs("guess_number")
             /\ ~GuessOver(Old)
             /\ guess # Old.target
             /\ play_guess_number(1, guess))
            => IF guess < Old.target
               THEN /\ resp'.body.hint = "higher"
                    /\ New.min_range
                         = (IF Old.min_range > guess + 1
                            THEN Old.min_range ELSE guess + 1)
                    /\ New.max_range = Old.max_range
               ELSE /\ resp'.body.hint = "lower"
                    /\ New.max_range
                         = (IF Old.max_range < guess - 1
                            THEN Old.max_range ELSE guess - 1)
                    /\ New.min_range = Old.min_range
       /\ GameIs("guess_number")
            => /\ New.min_range >= Old.min_range
               /\ New.max_range <= Old.max_range]_vars

\* a guess above max_range left the range narrowed by earlier guesses
C16_Witness ==
    /\ GameIs("guess_number")
    /\ resp.op = "play_guess_number"
    /\ "hint" \in DOMAIN resp.body
    /\ resp.body.hint = "lower"
    /\ resp.body.guess = 101
    /\ Old.max_range = 41
    /\ Old.min_range = MinRange

\* C17: a guess given when won is true or len(guesses) >= max_guesses yields
\* the finished-already outcome and changes nothing, so len(guesses) never
\* exceeds max_guesses.
C17_GuessFinishedAlready ==
    [][/\ \A guess \in GameGuesses :
            (/\ GameIs("guess_number")
             /\ (Old.won \/ Len(Old.guesses) >= Old.max_guesses)
             /\ play_guess_number(1, guess))
            => /\ resp'.status = 200
               /\ resp'.body = [error |-> "Game already finished",
                                finished |-> TRUE]
               /\ sessions' = sessions
       /\ GameIs("guess_number")
            => Len(New.guesses) <= New.max_guesses]_vars

\* a guess was refused after seven wrong guesses
C17_Witness ==
    /\ GameIs("guess_number")
    /\ resp.op = "play_guess_number"
    /\ "error" \in DOMAIN resp.body
    /\ resp.body.error = "Game already finished"
    /\ ~Old.won
    /\ Len(Old.guesses) = MaxGuesses

\* the record added by the step
NewRecord == records'[Len(records')]

\* C18: the GameRecord created by end_session has winner "user" iff the
\* session state's user_score > companion_score, "companion" iff
\* companion_score > user_score, "tie" iff they are equal, and its two
\* scores are those of the state when the session is ended (0 for a score
\* the state does not hold).
C18_RecordWinner ==
    [][end_session(1)
         => LET us == IF "user_score" \in DOMAIN Old
                      THEN Old.user_score ELSE 0
                cs == IF "companion_score" \in DOMAIN Old
                      THEN Old.companion_score ELSE 0
            IN  /\ Len(records') = Len(records) + 1
                /\ NewRecord.session_id = 1
                /\ NewRecord.user_score = us
                /\ NewRecord.companion_score = cs
                /\ (NewRecord.winner = "user") <=> (us > cs)
                /\ (NewRecord.winner = "companion") <=> (cs > us)
                /\ (NewRecord.winner = "tie") <=> (us = cs)
                /\ resp'.body.winner = NewRecord.winner]_vars

\* a session was ended with the companion ahead
C18_Witness ==
    /\ Len(records) = 1
    /\ resp.op = "end_session"
    /\ records[1].winner = "companion"
    /\ records[1].companion_score = 2
    /\ records[1].user_score = 1

\* C19: the GameRecord created by end_session has rounds_played equal to
\* the state's rounds when the state has one, else to its current_index
\* (0 when it has neither); for a word_chain session this is the number of
\* accepted words, for a trivia session the number of answers given.
C19_RoundsPlayed ==
    [][end_session(1)
         => /\ Len(records') = Len(records) + 1
            /\ NewRecord.rounds_played
                 = (IF "rounds" \in DOMAIN Old THEN Old.rounds
                    ELSE IF "current_index" \in DOMAIN Old
                    THEN Old.current_index ELSE 0)
            /\ GameIs("word_chain")
                 => NewRecord.rounds_played = Len(Old.words_used)
            /\ GameIs("trivia")
                 => NewRecord.rounds_played = Len(Old.answers)]_vars

\* a trivia session was ended after two answers
C19_Witness ==
    /\ Len(records) = 1
    /\ resp.op = "end_session"
    /\ records[1].game_id = "trivia"
    /\ records[1].rounds_played = 2
    /\ Len(Old.answers) = 2

\* C20: for every owner and every table of records, get_statistics counts
\* only the owner's records: total_games is their number, wins, losses and
\* ties the numbers with winner "user", "companion" and "tie", which add up
\* to total_games; games_by_type has an entry for each game the owner has
\* a record of, whose played is the number of the owner's records of that
\* game and whose wins the number of those won by the user.
C20_Statistics ==
    [][\A c \in CompanionIds :
         get_game_stats(c)
         => LET own == {i \in 1..Len(records) : records[i].companion_id = c}
                won == {i \in own : records[i].winner = "user"}
                st == resp'.body
            IN  /\ st.total_games = Cardinality(own)
                /\ st.wins = Cardinality(won)
                /\ st.losses
                     = Cardinality({i \in own :
                                      records[i].winner = "companion"})
                /\ st.ties
                     = Cardinality({i \in own : records[i].winner = "tie"})
                /\ st.wins + st.losses + st.ties = st.total_games
                /\ DOMAIN st.games_by_type = {records[i].game_id : i \in own}
                /\ \A g \in DOMAIN st.games_by_type :
                     /\ st.games_by_type[g].played
                          = Cardinality({i \in own : records[i].game_id = g})
                     /\ st.games_by_type[g].wins
                          = Cardinality({i \in won :
                                           records[i].game_id = g})]_vars

\* the statistics of an owner with a win and a loss in two games, beside a
\* record of another owner
C20_Witness ==
    /\ resp.op = "get_game_stats"
    /\ Len(records) = 3
    /\ resp.body.total_games = 2
    /\ resp.body.wins = 1
    /\ resp.body.losses = 1
    /\ DOMAIN resp.body.games_by_type = {"trivia", "word_chain"}

----------------------------------------------------------------------------
(* Properties of the statistics, the concurrent moves, the call service    *)
(* and the music player                                                     *)

\* C21: get_statistics never changes state: a GET /stats leaves every
\* GameSession and GameRecord as it was, and for an owner without records
\* it answers the all-zero structure with an empty games_by_type.
C21_StatisticsReadOnly ==
    [][/\ resp'.op = "get_game_stats"
            => /\ sessions' = sessions
               /\ records' = records
               /\ resp'.status = 200
       /\ \A c \in CompanionIds :
            (/\ get_game_stats(c)
             /\ \A i \in 1..Len(records) : records[i].companion_id # c)
            => resp'.body = [total_games |-> 0, total_user_score |-> 0,
                             total_companion_score |-> 0, wins |-> 0,
                             losses |-> 0, ties |-> 0,
                             games_by_type |-> EmptyDict]]_vars

\* the statistics of an owner without records were asked while another
\* owner had one
C21_Witness ==
    /\ resp.op = "get_game_stats"
    /\ resp.body.total_games = 0
    /\ Len(records) >= 1
    /\ Len(sessions) >= 1

\* whether a response body is that of an accepted word
Accepted(body) == "valid" \in DOMAIN body /\ body.valid

\* C22: two play calls on one session race and the last write wins: when
\* both read the state before either writes and both moves are accepted,
\* both get their outcome, and the state stored by the later writer is the
\* state it read with its own move alone; the earlier writer's move is not
\* in it.
C22_LastWriteWins ==
    [][\A k \in RaceCallers, j \in RaceCallers :
         (/\ k # j
          /\ play_word_chain_commit(k)
          /\ plays[j].pc = "done"
          /\ plays[j].snapshot = plays[k].snapshot
          /\ Accepted(plays[j].result)
          /\ Accepted(resp'.body))
         => LET read == plays[k].snapshot[1].state.json IN
            /\ Accepted(plays'[j].result)
            /\ plays'[j].result.word = plays[j].word
            /\ plays'[k].result = resp'.body
            /\ resp'.body.word = plays[k].word
            /\ New.words_used = read.words_used \o <<plays[k].word>>
            /\ New.current_word = Some(plays[k].word)
            /\ New.rounds = read.rounds + 1
            /\ New.user_score = read.user_score + 1
            /\ New = resp'.body.state
            /\ plays[j].word # plays[k].word
                 => \A i \in 1..Len(New.words_used) :
                      New.words_used[i] # plays[j].word]_vars

\* two accepted moves on one state read, of which one is stored
C22_Witness ==
    /\ plays[1].pc = "done"
    /\ plays[2].pc = "done"
    /\ plays[1].snapshot = plays[2].snapshot
    /\ Accepted(plays[1].result)
    /\ Accepted(plays[2].result)
    /\ plays[1].word # plays[2].word
    /\ Old.rounds = plays[1].snapshot[1].state.json.rounds + 1
    /\ Old.words_used
         = plays[1].snapshot[1].state.json.words_used \o <<plays[2].word>>

\* C23: a new call session starts CONNECTING; activate_session(id) returns
\* True and makes the session ACTIVE only when the service holds the session
\* and it is CONNECTING; for an unknown id and for a session already ACTIVE
\* it returns False and changes no session.
C23_ActivateSession ==
    [][/\ \A c \in CallCompanions :
            (start_call(c) /\ resp'.status = 200)
            => /\ Len(call_sessions') = Len(call_sessions) + 1
               /\ call_sessions'[Len(call_sessions')].status = "connecting"
               /\ resp'.body.status = "connecting"
       /\ \A sid \in CallIds :
            activate_session(sid)
            => IF sid \in active_sessions
                  /\ call_sessions[sid].status = "connecting"
               THEN /\ resp'.body.result = TRUE
                    /\ call_sessions'[sid].status = "active"
                    /\ \A i \in 1..Len(call_sessions) :
                         i # sid => call_sessions'[i] = call_sessions[i]
                    /\ active_sessions' = active_sessions
               ELSE /\ resp'.body.result = FALSE
                    /\ call_sessions' = call_sessions
                    /\ active_sessions' = active_sessions]_vars

\* activate_session returned False for a session that is already ACTIVE
C23_Witness ==
    /\ resp.op = "activate_session"
    /\ resp.body.result = FALSE
    /\ \E sid \in active_sessions : call_sessions[sid].status = "active"
    /\ Len(call_sessions) = 1

\* C24: POST /end of a session the service holds succeeds (end_session
\* returned True), sets its status to ENDED and removes it, so get_session
\* gives None; for an unknown or already ended id it fails (end_session
\* returned False) and changes nothing; get_active_sessions_count is the
\* number of sessions created and not yet ended.
C24_EndSession ==
    [][/\ \A sid \in CallIds :
            end_call(sid)
            => IF sid \in active_sessions
               THEN /\ resp'.status = 200
                    /\ call_sessions'[sid].status = "ended"
                    /\ \A i \in 1..Len(call_sessions) :
                         i # sid => call_sessions'[i] = call_sessions[i]
                    /\ active_sessions' = active_sessions \ {sid}
               ELSE /\ resp'.status = 404
                    /\ call_sessions' = call_sessions
                    /\ active_sessions' = active_sessions
       /\ CallService_get_active_sessions_count(active_sessions')
            = Cardinality({i \in 1..Len(call_sessions') :
                             call_sessions'[i].status # "ended"})]_vars

\* POST /end was refused for a session ended before, another one being held
C24_Witness ==
    /\ resp.op = "end_call"
    /\ resp.status = 404
    /\ Len(call_sessions) = 2
    /\ \E i \in 1..2 : call_sessions[i].status = "ended"
    /\ CallService_get_active_sessions_count(active_sessions) = 1

\* C30: the WebSocket handler answers "activate" with the status message
\* "active" only if the session's status is ACTIVE at that moment.
C30_ActiveOnlyIfActive ==
    [][(websocket_call_activate /\ ws'.out.status = "active")
         => call_sessions'[ws.session_id].status = "active"]_vars

\* whether only the playback row of companion c may differ after the step
OnlyRowOf(c) == \A d \in CompanionIds \ {c} : playback'[d] = playback[d]

\* C25: the playback state of a companion reflects the last successful
\* operation: after play(track) is_playing is true, current_track_id is the
\* track and progress is 0; after pause is_playing is false and the track
\* is kept; after resume is_playing is true with the same track; after stop
\* is_playing is false, current_track_id is null and progress is 0; an
\* operation that fails changes nothing.
C25_PlaybackState ==
    [][\A c \in CompanionIds :
         /\ \A t \in TrackInputs :
              play_track(c, t)
              => IF resp'.status = 200
                 THEN /\ playback'[c] # None
                      /\ playback'[c][1].is_playing
                      /\ playback'[c][1].current_track_id = Some(t)
                      /\ playback'[c][1].progress = 0
                      /\ resp'.body.state.is_playing
                      /\ resp'.body.state.current_track_id = Some(t)
                      /\ OnlyRowOf(c)
                 ELSE playback' = playback
         /\ pause_playback(c)
              => IF resp'.status = 200
                 THEN /\ ~playback'[c][1].is_playing
                      /\ playback'[c][1].current_track_id
                           = playback[c][1].current_track_id
                      /\ playback'[c][1].progress = playback[c][1].progress
                      /\ OnlyRowOf(c)
                 ELSE playback' = playback
         /\ resume_playback(c)
              => IF resp'.status = 200
                 THEN /\ playback'[c][1].is_playing
                      /\ playback'[c][1].current_track_id # None
                      /\ playback'[c][1].current_track_id
                           = playback[c][1].current_track_id
                      /\ playback'[c][1].progress = playback[c][1].progress
                      /\ OnlyRowOf(c)
                 ELSE playback' = playback
         /\ stop_playback(c)
              => IF resp'.status = 200
                 THEN /\ ~playback'[c][1].is_playing
                      /\ playback'[c][1].current_track_id = None
                      /\ playback'[c][1].progress = 0
                      /\ OnlyRowOf(c)
                 ELSE playback' = playback]_vars

\* a companion started a track while the paused track of the other one
\* kept its progress
C25_Witness ==
    /\ resp.op = "play_track"
    /\ resp.status = 200
    /\ playback["c1"] # None
    /\ playback["c1"][1].current_track_id = Some("t2")
    /\ playback["c1"][1].progress = 0
    /\ playback["c2"] # None
    /\ playback["c2"][1].progress = 5
    /\ ~playback["c2"][1].is_playing
    /\ playback["c2"][1].current_track_id = Some("t1")

\* C26: in every state of a word_chain session reached by plays of non-empty
\* words, user_score = rounds = len(words_used), words_used has no
\* duplicate, current_word is the last element of words_used (None when it
\* is empty), and each word after the first starts with the last character
\* of the word before it.
C26_ChainInvariant ==
    (/\ GameIs("word_chain")
     /\ \A i \in 1..Len(Old.words_used) : Old.words_used[i] # <<>>)
    => LET used == Old.words_used IN
       /\ Old.user_score = Len(used)
       /\ Old.rounds = Len(used)
       /\ \A i \in 1..Len(used) : \A j \in 1..Len(used) :
            i # j => used[i] # used[j]
       /\ Old.current_word
            = (IF used = <<>> THEN None ELSE Some(used[Len(used)]))
       /\ \A i \in 2..Len(used) :
            used[i][1] = used[i - 1][Len(used[i - 1])]

\* a chain of three non-empty words
C26_Witness ==
    /\ GameIs("word_chain")
    /\ Len(Old.words_used) = 3
    /\ \A i \in 1..3 : Old.words_used[i] # <<>>
    /\ Old.current_word = Some(Old.words_used[3])

\* C27: in every state of a guess_number session, whatever integers are
\* guessed, min_range <= target <= max_range, and won is true iff the
\* target is one of guesses.
C27_TargetInRange ==
    GameIs("guess_number")
    => /\ Old.min_range <= Old.target
       /\ Old.target <= Old.max_range
       /\ Old.won <=> \E i \in 1..Len(Old.guesses) :
                        Old.guesses[i] = Old.target

\* guesses below and above the range left the range closed on the target
C27_Witness ==
    /\ GameIs("guess_number")
    /\ Old.target = MaxRange
    /\ ~Old.won
    /\ Old.max_range = MaxRange
    /\ Old.min_range = MinRange + 1
    /\ \E i \in 1..Len(Old.guesses) : Old.guesses[i] = MaxRange + 1
    /\ \E i \in 1..Len(Old.guesses) : Old.guesses[i] = MinRange - 1

\* the companion_score a session state holds, None when it holds none
CompanionScore(st) ==
    IF "companion_score" \in DOMAIN st THEN Some(st.companion_score) ELSE None

\* C28: no play operation changes companion_score, so every GameRecord has
\* winner "user" or "tie", never "companion" (a guess_number game ended
\* without a correct guess is a tie), and get_statistics reports losses = 0.
C28_CompanionNeverWins ==
    [][/\ \A i \in 1..Len(sessions) :
            CompanionScore(sessions'[i].state.json)
              = CompanionScore(sessions[i].state.json)
       /\ \A i \in 1..Len(records') : records'[i].winner \in {"user", "tie"}
       /\ \A sid \in SessionIds :
            (/\ end_session(sid)
             /\ sid <= Len(sessions)
             /\ sessions[sid].game_id = "guess_number"
             /\ ~sessions[sid].state.json.won)
            => records'[Len(records')].winner = "tie"
       /\ resp'.op = "get_game_stats" => resp'.body.losses = 0]_vars

\* the statistics after a word_chain session with an accepted word was ended
C28_Witness ==
    /\ resp.op = "get_game_stats"
    /\ resp.body.total_games = 1
    /\ resp.body.wins = 1
    /\ resp.body.losses = 0
    /\ records[1].game_id = "word_chain"
    /\ records[1].winner = "user"
    /\ records[1].companion_score = 0

\* C29: in every state of a trivia session current_index = len(answers)
\* <= len(questions) and user_score is the number of entries of answers
\* with correct true; an answer is accepted exactly while fewer than
\* len(questions) answers were given, and every later one is answered
\* finished-already.
C29_TriviaInvariant ==
    [][GameIs("trivia")
         => /\ New.current_index = Len(New.answers)
            /\ Len(New.answers) <= Len(New.questions)
            /\ New.user_score
                 = Cardinality({i \in 1..Len(New.answers) :
                                  New.answers[i].correct})
            /\ \A answer \in GameAnswers :
                 play_trivia(1, answer)
                 => IF Len(Old.answers) < Len(Old.questions)
                    THEN /\ "correct" \in DOMAIN resp'.body
                         /\ Len(New.answers) = Len(Old.answers) + 1
                    ELSE /\ resp'.body = [error |-> "No more questions",
                                          finished |-> TRUE]
                         /\ New = Old]_vars

\* an answer was refused after all the questions were answered, two of them
\* correctly
C29_Witness ==
    /\ GameIs("trivia")
    /\ resp.op = "play_trivia"
    /\ "error" \in DOMAIN resp.body
    /\ Old.current_index = SampleSize
    /\ Len(Old.answers) = SampleSize
    /\ Old.user_score = 2

====
